---------------------------- MODULE Spec2Model ----------------------------
(* A model of src/chunk_type.rs: the validated 4-byte PNG chunk type      *)
(* (ChunkType), its two constructors (TryFrom<[u8; 4]> and FromStr), its  *)
(* Display rendering, its derived equality and its five predicates.       *)
(*                                                                        *)
(* A byte is a number in 0..255.  A text (&str / String) is a sequence of *)
(* Unicode scalar values; as_bytes encodes it in UTF-8 and from_utf8      *)
(* validates and decodes a byte sequence, so that the two directions are  *)
(* distinct computations.                                                 *)
EXTENDS Integers, Sequences, FiniteSets, TLC

VARIABLES value, s, chunk1, chunk2, rendered, chunk3, parsed, ret

vars == <<value, s, chunk1, chunk2, rendered, chunk3, parsed, ret>>

--------------------------------------------------------------------------
(* Bounds of the input domain.                                            *)

\* Longest text, in characters, that the text constructor is given.
MaxChars == 4

--------------------------------------------------------------------------
(* Program constants.                                                     *)

\* const BIT_MASK: u8 = 0b0010_0000
BIT_MASK == 32

INVALID_BYTES_MSG == "Bytes must represent valid uppercase or lowercase ASCII letters!"

UTF8_MSG == "Failure in parsing UTF-8!"

WRONG_LENGTH_MSG == "Unable to convert string! Ensure string is 4 bytes!"

\* The length of the array type [u8; 4].
TYPE_CODE_LEN == 4

--------------------------------------------------------------------------
(* Values: chunk types, Result<ChunkType, &str>, the result of to_string. *)

ChunkType(code) == [type_code |-> code]

NoChunk == [type_code |-> <<>>]

Ok(chunk) == [kind |-> "Ok", chunk |-> chunk, err |-> ""]

Err(msg) == [kind |-> "Err", chunk |-> NoChunk, err |-> msg]

NotCalled == [kind |-> "None", chunk |-> NoChunk, err |-> ""]

--------------------------------------------------------------------------
(* u8 arithmetic.                                                         *)

RECURSIVE BitAnd(_, _)
\* The & of two u8 values, bit by bit.
BitAnd(a, b) ==
    IF a = 0 \/ b = 0 THEN 0
    ELSE (a % 2) * (b % 2) + 2 * BitAnd(a \div 2, b \div 2)

\* Faulty variant: the upper ends of the ranges are excluded.
is_ascii_alphabetic_open(x) == (x >= 65 /\ x < 90) \/ (x >= 97 /\ x < 122)

\* u8::is_ascii_alphabetic: b'A'..=b'Z' | b'a'..=b'z'
is_ascii_alphabetic(x) == (x >= 65 /\ x <= 90) \/ (x >= 97 /\ x <= 122)

--------------------------------------------------------------------------
(* UTF-8: str::as_bytes (encoding) and str::from_utf8 (validation and     *)
(* decoding), as the standard library computes them.                      *)

\* The UTF-8 encoding of one Unicode scalar value.
encode_utf8(c) ==
    IF c < 128 THEN <<c>>
    ELSE IF c < 2048 THEN <<192 + (c \div 64), 128 + (c % 64)>>
    ELSE IF c < 65536 THEN
        <<224 + (c \div 4096), 128 + ((c \div 64) % 64), 128 + (c % 64)>>
    ELSE <<240 + (c \div 262144), 128 + ((c \div 4096) % 64),
           128 + ((c \div 64) % 64), 128 + (c % 64)>>

RECURSIVE as_bytes(_)
\* s.as_bytes(): the bytes of a text, the encodings of its characters in order.
as_bytes(t) ==
    IF t = <<>> THEN <<>> ELSE encode_utf8(Head(t)) \o as_bytes(Tail(t))

\* Faulty variant: the ASCII limit 0x80 written as decimal 80.
utf8_char_width_decimal(b) ==
    IF b < 80 THEN 1
    ELSE IF b >= 194 /\ b <= 223 THEN 2
    ELSE IF b >= 224 /\ b <= 239 THEN 3
    ELSE IF b >= 240 /\ b <= 244 THEN 4
    ELSE 0

\* The width the first byte of a UTF-8 sequence announces; 0 when it cannot start one.
utf8_char_width(b) ==
    IF b < 128 THEN 1
    ELSE IF b >= 194 /\ b <= 223 THEN 2
    ELSE IF b >= 224 /\ b <= 239 THEN 3
    ELSE IF b >= 240 /\ b <= 244 THEN 4
    ELSE 0

is_continuation(b) == b >= 128 /\ b <= 191

\* The second byte allowed after the first byte of a 3-byte sequence.
second_of_three_ok(first, second) ==
    \/ first = 224 /\ second >= 160 /\ second <= 191
    \/ first >= 225 /\ first <= 236 /\ second >= 128 /\ second <= 191
    \/ first = 237 /\ second >= 128 /\ second <= 159
    \/ first >= 238 /\ first <= 239 /\ second >= 128 /\ second <= 191

\* The second byte allowed after the first byte of a 4-byte sequence.
second_of_four_ok(first, second) ==
    \/ first = 240 /\ second >= 144 /\ second <= 191
    \/ first >= 241 /\ first <= 243 /\ second >= 128 /\ second <= 191
    \/ first = 244 /\ second >= 128 /\ second <= 143

\* Whether a well-formed UTF-8 sequence of width w starts at index i of b.
sequence_ok(b, i, w) ==
    /\ w >= 1
    /\ i + w - 1 <= Len(b)
    /\ w = 2 => is_continuation(b[i + 1])
    /\ w = 3 => second_of_three_ok(b[i], b[i + 1]) /\ is_continuation(b[i + 2])
    /\ w = 4 => /\ second_of_four_ok(b[i], b[i + 1])
                /\ is_continuation(b[i + 2])
                /\ is_continuation(b[i + 3])

\* The scalar value of the well-formed sequence of width w at index i of b.
decode_at(b, i, w) ==
    IF w = 1 THEN b[i]
    ELSE IF w = 2 THEN (b[i] - 192) * 64 + (b[i + 1] - 128)
    ELSE IF w = 3 THEN
        (b[i] - 224) * 4096 + (b[i + 1] - 128) * 64 + (b[i + 2] - 128)
    ELSE (b[i] - 240) * 262144 + (b[i + 1] - 128) * 4096
         + (b[i + 2] - 128) * 64 + (b[i + 3] - 128)

RECURSIVE utf8_from(_, _)
\* Validation and decoding of b from index i on.
utf8_from(b, i) ==
    IF i > Len(b) THEN [ok |-> TRUE, text |-> <<>>]
    ELSE LET w == utf8_char_width(b[i]) IN
         IF ~sequence_ok(b, i, w) THEN [ok |-> FALSE, text |-> <<>>]
         ELSE LET rest == utf8_from(b, i + w) IN
              IF rest.ok
              THEN [ok |-> TRUE, text |-> <<decode_at(b, i, w)>> \o rest.text]
              ELSE [ok |-> FALSE, text |-> <<>>]

\* str::from_utf8(&b): Ok(text) when b is well-formed UTF-8, Err otherwise.
from_utf8(b) == utf8_from(b, 1)

--------------------------------------------------------------------------
(* The functions of chunk_type.rs.                                        *)

\* fn bytes_are_valid(bytes: [u8; 4]) -> bool
bytes_are_valid(bytes) ==
    \A i \in 1..Len(bytes) : is_ascii_alphabetic(bytes[i])

\* Faulty variant: the UTF-8 check comes before the letter check.
try_from_utf8_first(v) ==
    IF ~from_utf8(v).ok THEN Err(UTF8_MSG)
    ELSE IF ~bytes_are_valid(v) THEN Err(INVALID_BYTES_MSG)
    ELSE Ok(ChunkType(v))

\* Faulty variant: the letter check is missing, any UTF-8 array is accepted.
try_from_unchecked(v) ==
    IF from_utf8(v).ok THEN Ok(ChunkType(v)) ELSE Err(UTF8_MSG)

\* impl TryFrom<[u8; 4]> for ChunkType: fn try_from(value)
try_from(v) ==
    IF ~bytes_are_valid(v) THEN Err(INVALID_BYTES_MSG)
    ELSE IF from_utf8(v).ok THEN Ok(ChunkType(v))
    ELSE Err(UTF8_MSG)

\* <[u8; 4]>::try_from(&[u8]): succeeds exactly on a slice of 4 bytes.
try_into_array(b) ==
    IF Len(b) = TYPE_CODE_LEN THEN [ok |-> TRUE, array |-> b]
    ELSE [ok |-> FALSE, array |-> <<>>]

\* Faulty variant: the length is counted in characters, not in bytes.
from_str_by_chars(t) ==
    IF Len(t) = TYPE_CODE_LEN THEN
        IF ~bytes_are_valid(as_bytes(t)) THEN Err(INVALID_BYTES_MSG)
        ELSE Ok(ChunkType(as_bytes(t)))
    ELSE Err(WRONG_LENGTH_MSG)

\* Faulty variant: the letter check is missing on the text path.
from_str_unchecked(t) ==
    LET type_cd_val == try_into_array(as_bytes(t)) IN
    IF type_cd_val.ok THEN Ok(ChunkType(type_cd_val.array))
    ELSE Err(WRONG_LENGTH_MSG)

\* impl FromStr for ChunkType: fn from_str(s)
from_str(t) ==
    LET type_cd_val == try_into_array(as_bytes(t)) IN
    IF type_cd_val.ok THEN
        IF ~bytes_are_valid(type_cd_val.array) THEN Err(INVALID_BYTES_MSG)
        ELSE Ok(ChunkType(type_cd_val.array))
    ELSE Err(WRONG_LENGTH_MSG)

\* Faulty variant: the text is written in lower case.
to_string_lower(chunk) ==
    LET r == from_utf8(chunk.type_code) IN
    IF r.ok
    THEN [kind |-> "Ok",
          text |-> [i \in 1..Len(r.text) |->
                      IF r.text[i] >= 65 /\ r.text[i] <= 90
                      THEN r.text[i] + 32 ELSE r.text[i]]]
    ELSE [kind |-> "Panic", text |-> <<>>]

\* impl Display for ChunkType, through to_string(): the unwrap panics on bad UTF-8.
to_string(chunk) ==
    LET r == from_utf8(chunk.type_code) IN
    IF r.ok THEN [kind |-> "Ok", text |-> r.text]
    ELSE [kind |-> "Panic", text |-> <<>>]

\* fn bytes(&self) -> [u8; 4]
bytes(chunk) == chunk.type_code

\* fn is_critical(&self) -> bool
is_critical(chunk) == BitAnd(chunk.type_code[1], BIT_MASK) = 0

\* fn is_public(&self) -> bool
is_public(chunk) == BitAnd(chunk.type_code[2], BIT_MASK) = 0

\* fn is_reserved_bit_valid(&self) -> bool
is_reserved_bit_valid(chunk) == BitAnd(chunk.type_code[3], BIT_MASK) = 0

\* Faulty variant: the polarity of the other three predicates.
is_safe_to_copy_clear(chunk) == BitAnd(chunk.type_code[4], BIT_MASK) = 0

\* fn is_safe_to_copy(&self) -> bool
is_safe_to_copy(chunk) == BitAnd(chunk.type_code[4], BIT_MASK) = BIT_MASK

\* Faulty variant: validity also asks for a safe-to-copy chunk type.
is_valid_and_safe(chunk) ==
    is_reserved_bit_valid(chunk) /\ is_safe_to_copy(chunk)

\* fn is_valid(&self) -> bool
is_valid(chunk) == is_reserved_bit_valid(chunk)

\* Faulty variant: equality that ignores the case of the letters.
chunk_eq_ignore_case(a, b) ==
    /\ Len(a.type_code) = Len(b.type_code)
    /\ \A i \in 1..Len(a.type_code) :
          a.type_code[i] % 32 = b.type_code[i] % 32

\* #[derive(PartialEq, Eq)]: field-wise equality of the type_code arrays.
chunk_eq(a, b) ==
    /\ Len(a.type_code) = Len(b.type_code)
    /\ \A i \in 1..Len(a.type_code) : a.type_code[i] = b.type_code[i]

--------------------------------------------------------------------------
(* The inputs the constructors are given.                                 *)

\* Bytes at and around the edges of the two letter ranges, and the two
\* bytes of a 2-byte UTF-8 sequence.
ByteSamples == {64, 65, 90, 91, 96, 97, 122, 123, 195, 169}

\* Bytes tried in one position of an array of letters.
ByteDeviations ==
    {0, 22, 32, 48, 49, 57, 127, 128, 136, 146, 150, 153, 159, 191, 192,
     194, 224, 237, 240, 244, 245, 255}

\* The arrays the tests of chunk_type.rs construct from.
TestArrays == {<<82, 117, 83, 116>>, <<0, 159, 146, 150>>, <<240, 159, 153, 136>>}

\* [82, 117, 83, 116] with one byte replaced.
OneByteOff ==
    {[<<82, 117, 83, 116>> EXCEPT ![i] = b] :
        i \in 1..TYPE_CODE_LEN, b \in ByteDeviations}

ByteArrays == [1..TYPE_CODE_LEN -> ByteSamples] \cup TestArrays \cup OneByteOff

\* Characters: R, s, 1, e-acute (2 bytes), the euro sign (3 bytes) and
\* the see-no-evil monkey (4 bytes).
CharSamples == {82, 115, 49, 233, 8364, 128584}

\* The texts the tests of chunk_type.rs construct from.
TestTexts ==
    {<<82, 117, 83, 116>>, <<114, 117, 83, 116>>, <<98, 76, 79, 98>>,
     <<82, 85, 83, 116>>, <<82, 117, 115, 116>>, <<82, 117, 83, 84>>,
     <<82, 117, 49, 116>>, <<128584>>, <<82, 117, 83, 116, 127, 22>>}

Texts == UNION {[1..n -> CharSamples] : n \in 0..MaxChars} \cup TestTexts

\* The 16 spellings of "rust" in upper and lower case.
CaseVariants ==
    {<<114 - a, 117 - b, 115 - c, 116 - d>> : a, b, c, d \in {0, 32}}

\* The pairs of an array and a text that the program is run on.  The two
\* are independent arguments; where one converts to the other, the pair that
\* spells the same bytes is among them.
Inputs ==
    \* an array that is UTF-8, with the text str::from_utf8 makes of it
    {[value |-> v, s |-> from_utf8(v).text] :
        v \in {a \in ByteArrays : from_utf8(a).ok}}
    \* an array that is not UTF-8, which no text spells, with the empty text
    \cup {[value |-> v, s |-> <<>>] :
        v \in {a \in ByteArrays : ~from_utf8(a).ok}}
    \* a text of 4 bytes, with the array of its bytes
    \cup {[value |-> as_bytes(t), s |-> t] :
        t \in {x \in Texts : try_into_array(as_bytes(x)).ok}}
    \* a text not of 4 bytes, which no array holds, with [82, 117, 83, 116]
    \cup {[value |-> <<82, 117, 83, 116>>, s |-> t] :
        t \in {x \in Texts : ~try_into_array(as_bytes(x)).ok}}
    \* an array and a text that differ at most in the case of their letters
    \cup {[value |-> v, s |-> t] : v \in CaseVariants, t \in CaseVariants}

--------------------------------------------------------------------------
(* The state machine: a caller holding an array and a text, the chunk     *)
(* types it constructed from them, and the value its last query returned. *)

NotRendered == [of |-> 0, self |-> NoChunk, kind |-> "None", text |-> <<>>]

NoReturn ==
    [op |-> "none", on |-> 0, self |-> NoChunk, other |-> NoChunk,
     flag |-> FALSE, array |-> <<>>]

\* The result variable a register number names.
Register(n) == IF n = 1 THEN chunk1 ELSE IF n = 2 THEN chunk2 ELSE chunk3

Registers == {1, 2, 3}

\* The registers the two constructors fill from the caller's inputs.
Constructed == {1, 2}

Init ==
    /\ \E in \in Inputs : value = in.value /\ s = in.s
    /\ chunk1 = NotCalled
    /\ chunk2 = NotCalled
    /\ chunk3 = NotCalled
    /\ rendered = NotRendered
    /\ parsed = NotRendered
    /\ ret = NoReturn

\* let chunk1 = ChunkType::try_from(value)
TryFrom ==
    /\ chunk1' = try_from(value)
    /\ UNCHANGED <<value, s, chunk2, rendered, chunk3, parsed, ret>>

\* let chunk2 = ChunkType::from_str(s)
FromStr ==
    /\ chunk2' = from_str(s)
    /\ UNCHANGED <<value, s, chunk1, rendered, chunk3, parsed, ret>>

\* let rendered = chunk.to_string(), of a chunk type that was constructed
Display(n) ==
    /\ Register(n).kind = "Ok"
    /\ LET r == to_string(Register(n).chunk) IN
       rendered' = [of |-> n, self |-> Register(n).chunk,
                    kind |-> r.kind, text |-> r.text]
    /\ UNCHANGED <<value, s, chunk1, chunk2, chunk3, parsed, ret>>

\* let chunk3 = ChunkType::from_str(&rendered); parsed keeps the text given
FromRendered ==
    /\ rendered.kind = "Ok"
    /\ chunk3' = from_str(rendered.text)
    /\ parsed' = rendered
    /\ UNCHANGED <<value, s, chunk1, chunk2, rendered, ret>>

\* chunk.bytes()
Bytes(n) ==
    /\ Register(n).kind = "Ok"
    /\ ret' = [op |-> "bytes", on |-> n, self |-> Register(n).chunk,
               other |-> NoChunk, flag |-> FALSE,
               array |-> bytes(Register(n).chunk)]
    /\ UNCHANGED <<value, s, chunk1, chunk2, rendered, chunk3, parsed>>

\* The value a predicate returns, with the chunk type it was called on.
Returned(op, n, b) ==
    [op |-> op, on |-> n, self |-> Register(n).chunk, other |-> NoChunk,
     flag |-> b, array |-> <<>>]

\* chunk.is_critical()
IsCritical(n) ==
    /\ Register(n).kind = "Ok"
    /\ ret' = Returned("is_critical", n, is_critical(Register(n).chunk))
    /\ UNCHANGED <<value, s, chunk1, chunk2, rendered, chunk3, parsed>>

\* chunk.is_public()
IsPublic(n) ==
    /\ Register(n).kind = "Ok"
    /\ ret' = Returned("is_public", n, is_public(Register(n).chunk))
    /\ UNCHANGED <<value, s, chunk1, chunk2, rendered, chunk3, parsed>>

\* chunk.is_reserved_bit_valid()
IsReservedBitValid(n) ==
    /\ Register(n).kind = "Ok"
    /\ ret' = Returned("is_reserved_bit_valid", n,
                       is_reserved_bit_valid(Register(n).chunk))
    /\ UNCHANGED <<value, s, chunk1, chunk2, rendered, chunk3, parsed>>

\* chunk.is_safe_to_copy()
IsSafeToCopy(n) ==
    /\ Register(n).kind = "Ok"
    /\ ret' = Returned("is_safe_to_copy", n, is_safe_to_copy(Register(n).chunk))
    /\ UNCHANGED <<value, s, chunk1, chunk2, rendered, chunk3, parsed>>

\* chunk.is_valid()
IsValid(n) ==
    /\ Register(n).kind = "Ok"
    /\ ret' = Returned("is_valid", n, is_valid(Register(n).chunk))
    /\ UNCHANGED <<value, s, chunk1, chunk2, rendered, chunk3, parsed>>

\* chunk1 == chunk2
Eq ==
    /\ chunk1.kind = "Ok"
    /\ chunk2.kind = "Ok"
    /\ ret' = [op |-> "eq", on |-> 1, self |-> chunk1.chunk,
               other |-> chunk2.chunk,
               flag |-> chunk_eq(chunk1.chunk, chunk2.chunk), array |-> <<>>]
    /\ UNCHANGED <<value, s, chunk1, chunk2, rendered, chunk3, parsed>>

Next ==
    \/ TryFrom
    \/ FromStr
    \/ \E n \in Registers : Display(n)
    \/ FromRendered
    \/ \E n \in Registers : Bytes(n)
    \/ \E n \in Registers : IsCritical(n)
    \/ \E n \in Registers : IsPublic(n)
    \/ \E n \in Registers : IsReservedBitValid(n)
    \/ \E n \in Registers : IsSafeToCopy(n)
    \/ \E n \in Registers : IsValid(n)
    \/ Eq

Spec == Init /\ [][Next]_vars

--------------------------------------------------------------------------
(* The vocabulary of the properties, stated on byte values alone.         *)

IsUpper(b) == b \in 65..90

IsLower(b) == b \in 97..122

IsLetter(b) == IsUpper(b) \/ IsLower(b)

AllLetters(a) == \A i \in 1..Len(a) : IsLetter(a[i])

\* The number of bytes the UTF-8 encoding of a character takes.
EncodedWidth(c) ==
    IF c <= 127 THEN 1 ELSE IF c <= 2047 THEN 2 ELSE IF c <= 65535 THEN 3 ELSE 4

RECURSIVE EncodedLen(_)
\* The number of bytes the UTF-8 encoding of a text takes.
EncodedLen(t) ==
    IF t = <<>> THEN 0 ELSE EncodedWidth(Head(t)) + EncodedLen(Tail(t))

Called(r) == r.kind # "None"

InvalidBytes == [kind |-> "Err", chunk |-> NoChunk, err |-> INVALID_BYTES_MSG]

WrongLength == [kind |-> "Err", chunk |-> NoChunk, err |-> WRONG_LENGTH_MSG]

Constructs(code) == [kind |-> "Ok", chunk |-> [type_code |-> code], err |-> ""]

--------------------------------------------------------------------------
(* The properties.                                                        *)

\* C1: for every array of 4 ASCII letters, try_from succeeds with a chunk
\* type holding the array, and bytes() of it returns the array unchanged.
C1_LettersConstruct ==
    AllLetters(value) =>
        /\ Called(chunk1) => chunk1 = Constructs(value)
        /\ (ret.op = "bytes" /\ ret.on = 1) => ret.array = value

C1_Witness ==
    /\ AllLetters(value)
    /\ \E i, j \in 1..TYPE_CODE_LEN : IsUpper(value[i]) /\ IsLower(value[j])
    /\ chunk1.kind = "Ok"
    /\ ret.op = "bytes" /\ ret.on = 1 /\ ret.array = value

\* C2: for every array with a byte that is not an ASCII letter, try_from
\* fails with INVALID_BYTES_MSG and produces no chunk type, also when the
\* array is not UTF-8; the error is never the UTF-8 one.
C2_NonLettersInvalidBytes ==
    (~AllLetters(value) /\ Called(chunk1)) => chunk1 = InvalidBytes

C2_Witness ==
    /\ value = <<0, 159, 146, 150>>
    /\ ~from_utf8(value).ok
    /\ chunk1 = InvalidBytes

\* C3: for every text whose UTF-8 encoding is not 4 bytes long, from_str
\* fails with WRONG_LENGTH_MSG, whatever the bytes are and however many
\* characters the text has.
C3_WrongLength ==
    (EncodedLen(s) # TYPE_CODE_LEN /\ Called(chunk2)) => chunk2 = WrongLength

C3_Witness ==
    /\ Len(s) = 4
    /\ EncodedLen(s) > 4
    /\ chunk2 = WrongLength

\* C4: for every text of exactly 4 bytes, from_str has the outcome of
\* try_from on those bytes: InvalidBytes when a byte is not a letter, the
\* same chunk type otherwise.
C4_TextPathAsBytePath ==
    (EncodedLen(s) = TYPE_CODE_LEN /\ Called(chunk2)) =>
        /\ ~AllLetters(as_bytes(s)) => chunk2 = InvalidBytes
        /\ AllLetters(as_bytes(s)) => chunk2 = Constructs(as_bytes(s))
        /\ (value = as_bytes(s) /\ Called(chunk1)) => chunk2 = chunk1

C4_Witness ==
    /\ Len(s) = 1
    /\ EncodedLen(s) = 4
    /\ value = as_bytes(s)
    /\ chunk2 = InvalidBytes
    /\ chunk1 = chunk2

\* C5: a constructed chunk type renders to its 4 bytes as 4 characters in
\* the same order and case, and from_str of that text succeeds with an
\* equal chunk type.
C5_RoundTrip ==
    /\ Called(rendered) =>
          /\ rendered.kind = "Ok"
          /\ Len(rendered.text) = TYPE_CODE_LEN
          /\ rendered.text = rendered.self.type_code
    /\ Called(chunk3) =>
          /\ parsed.text = parsed.self.type_code
          /\ chunk3.kind = "Ok"
          /\ chunk_eq(chunk3.chunk, parsed.self)
          /\ chunk3.chunk = parsed.self

C5_Witness ==
    /\ parsed.of = 2
    /\ parsed.text = <<114, 117, 83, 116>>
    /\ chunk3.kind = "Ok"
    /\ chunk3.chunk = chunk2.chunk
    /\ chunk1.kind = "Ok"
    /\ chunk1.chunk # chunk2.chunk

\* The byte a predicate reads (counted from 1), 0 for the other calls.
PredicateByte(op) ==
    IF op = "is_critical" THEN 1
    ELSE IF op = "is_public" THEN 2
    ELSE IF op = "is_reserved_bit_valid" THEN 3
    ELSE IF op = "is_safe_to_copy" THEN 4
    ELSE 0

\* The predicate of a name, applied to an array.
Predicate(op, code) ==
    IF op = "is_critical" THEN is_critical([type_code |-> code])
    ELSE IF op = "is_public" THEN is_public([type_code |-> code])
    ELSE IF op = "is_reserved_bit_valid"
        THEN is_reserved_bit_valid([type_code |-> code])
    ELSE is_safe_to_copy([type_code |-> code])

ToUpper(b) == IF IsLower(b) THEN b - 32 ELSE b

ToLower(b) == IF IsUpper(b) THEN b + 32 ELSE b

\* The arrays that differ from code in the case of letters other than letter i.
OtherCases(code, i) ==
    {[j \in 1..TYPE_CODE_LEN |->
        IF j = i THEN code[j]
        ELSE IF up[j] THEN ToUpper(code[j]) ELSE ToLower(code[j])] :
        up \in [1..TYPE_CODE_LEN -> BOOLEAN]}

\* C6: is_critical, is_public and is_reserved_bit_valid return true iff
\* byte 0, 1, 2 is an uppercase letter, is_safe_to_copy iff byte 3 is a
\* lowercase letter, and none changes with the case of another byte.
C6_CaseBitLaws ==
    PredicateByte(ret.op) # 0 =>
        LET i == PredicateByte(ret.op)
            code == ret.self.type_code
        IN  /\ ret.flag = (IF i = 4 THEN IsLower(code[i]) ELSE IsUpper(code[i]))
            /\ \A c \in OtherCases(code, i) : Predicate(ret.op, c) = ret.flag

C6_Witness ==
    /\ ret.op = "is_safe_to_copy"
    /\ ret.self.type_code = <<82, 117, 83, 84>>
    /\ ret.flag = FALSE

\* C7: is_valid returns what is_reserved_bit_valid returns, whatever the
\* other three predicates say; a chunk type whose byte 2 is lowercase is
\* constructed and is not valid.
C7_ValidIsReservedBit ==
    ret.op = "is_valid" =>
        /\ ret.flag = is_reserved_bit_valid(ret.self)
        /\ ret.flag = IsUpper(ret.self.type_code[3])

C7_Witness ==
    /\ ret.op = "is_valid"
    /\ ret.self.type_code = <<82, 117, 115, 116>>
    /\ ret.flag = FALSE
    /\ is_critical(ret.self) /\ ~is_public(ret.self) /\ is_safe_to_copy(ret.self)

\* C8: a chunk type constructed from bytes and one constructed from text
\* are equal iff their 4 bytes are equal position by position; the case
\* of a letter counts.
C8_EqualityIsByteEquality ==
    ret.op = "eq" =>
        /\ ret.flag = (\A i \in 1..TYPE_CODE_LEN :
                          ret.self.type_code[i] = ret.other.type_code[i])
        /\ (value = as_bytes(s)) => ret.flag

C8_Witness ==
    /\ ret.op = "eq"
    /\ value = <<82, 117, 83, 116>>
    /\ s = <<114, 117, 115, 116>>
    /\ ret.flag = FALSE

\* The bytes each register was constructed from.
Origin(n) ==
    IF n = 1 THEN value ELSE IF n = 2 THEN as_bytes(s) ELSE as_bytes(parsed.text)

\* I1 of every chunk type that exists, and nothing where construction failed.
I1 ==
    \A n \in Registers :
        /\ Register(n).kind = "Ok" =>
              /\ Len(Register(n).chunk.type_code) = TYPE_CODE_LEN
              /\ AllLetters(Register(n).chunk.type_code)
              /\ Register(n).chunk.type_code = Origin(n)
        /\ Register(n).kind # "Ok" => Register(n).chunk = NoChunk

\* A step that is a query or a rendering: it returns a value or a text and
\* constructs nothing.
QueryStep == ret' # ret \/ rendered' # rendered

\* C9: in every state every chunk type that exists holds exactly 4 ASCII
\* letters, the bytes it was constructed from; a failed construction
\* leaves no chunk type, and no query changes a chunk type.
C9_InvariantI1 ==
    /\ []I1
    /\ [][QueryStep => UNCHANGED <<chunk1, chunk2, chunk3>>]_vars
    /\ [][\A n \in Constructed :
            Register(n).kind = "Ok" => Register(n)' = Register(n)]_vars

C9_Witness ==
    /\ chunk1.kind = "Ok"
    /\ chunk2.kind = "Err"
    /\ chunk3.kind = "Ok"
    /\ rendered.of = 3
    /\ parsed.of = 1
    /\ ret.op = "is_valid"

\* C10: try_from never fails with UTF8_MSG: its outcome is a chunk type or
\* INVALID_BYTES_MSG, because every array of letters passes from_utf8; the
\* errors that occur on either path are the other two.
C10_Utf8ErrorUnreachable ==
    /\ Called(chunk1) => (chunk1.kind = "Ok" \/ chunk1 = InvalidBytes)
    /\ AllLetters(value) => from_utf8(value).ok
    /\ \A n \in Registers : Register(n).err # UTF8_MSG

C10_Witness ==
    /\ chunk1.kind = "Ok"
    /\ from_utf8(value).ok
    /\ chunk2 = WrongLength

==========================================================================
